---- MODULE Spec2Model ----
(***************************************************************************)
(* beman::take_before : the take_before_view range adaptor.                *)
(*                                                                         *)
(* A view stores a source view (base_) and a delimiter (value_).  Its      *)
(* begin() is the source's begin, its end() is a sentinel that compares    *)
(* equal to a cursor at the source's end or at an element equal to the     *)
(* delimiter.  The model follows include/beman/take_before/take_before.hpp *)
(* and drives the view the way a range-for loop does.                      *)
(*                                                                         *)
(* Cursors are 0-based positions.  An operation whose behaviour is         *)
(* undefined (reading a disengaged optional, dereferencing past a buffer)  *)
(* is modelled as the set of outcomes a build can produce.                 *)
(*                                                                         *)
(* Spec drives views made through every entry point; BaseSpec adds the     *)
(* callers of base(); PairSpec steps two loops side by side.               *)
(***************************************************************************)
EXTENDS Integers, Sequences, FiniteSets, TLC

VARIABLES
    pc,        \* "none" | "ready" | "loop" | "done" | "fault" | "moved"
    view,      \* the take_before_view object: [base_, value_, T]
    closure,   \* <<>> or <<c>>, c the take_before_closure object [value_, T]
    entry,     \* which entry point built the view
    given,     \* the caller's arguments: [r, x], the sequence and the value
    it,        \* the loop's cursor
    it_const,  \* the cursor came from begin() const
    sent,      \* the loop's end marker: [end_, value_, Const]
    out,       \* elements yielded by the current loop
    runs,      \* results of the completed loops over the current view
    dropped,   \* a loop over the current view was left part-way
    made,      \* the closure has made a view
    reused,    \* the closure had made a view before it made this one
    modes,     \* for each completed loop, whether it ran through a const handle
    got,       \* what the last call of base() returned, NoBase before one
    derefs,    \* the cursor positions the current loop has dereferenced, in order
    other      \* a second loop run alongside: [pc, same, view, it, it_const, sent, out]

vars == <<pc, view, closure, entry, given, it, it_const, sent, out, runs, dropped, made,
          reused, modes, got, derefs, other>>

---------------------------------------------------------------------------
(* Bounds *)

MaxLen == 3       \* longest source sequence
MaxElem == 1      \* elements are 0..MaxElem
MaxRuns == 2      \* loops run over one view
MaxOverrun == 1   \* positions past its buffer an unbounded cursor may visit

Elem == 0 .. MaxElem
Delim == Elem \cup {2 * e : e \in Elem}
Sources == UNION {[1 .. n -> Elem] : n \in 0 .. MaxLen}

\* what a read of storage that holds no live object gives: a value nothing
\* is known about, which compares equal or unequal to anything
Indeterminate == 2 * MaxElem + 1

Min(a, b) == IF a < b THEN a ELSE b

---------------------------------------------------------------------------
(* Types.  T is described by the three traits tidy_obj reads.  All objects *)
(* of an empty type are alike, so an empty type has one value, constant.   *)

TypeOf(e, c, d, k) ==
    [is_empty |-> e, is_trivially_default_constructible |-> c,
     is_trivially_destructible |-> d, constant |-> k]

int_t == TypeOf(FALSE, TRUE, TRUE, <<>>)
string_t == TypeOf(FALSE, FALSE, FALSE, <<>>)

NonEmptyTypes == {TypeOf(FALSE, c, d, <<>>) : c, d \in BOOLEAN}
EmptyTypes == {TypeOf(TRUE, c, d, <<k>>) : c, d \in BOOLEAN, k \in Delim}
AllTypes == NonEmptyTypes \cup EmptyTypes

\* the values an object of type t can hold
ValuesOf(t) == IF t.is_empty THEN {t.constant[1]} ELSE Delim

tidy_obj(t) ==
    t.is_empty /\ t.is_trivially_default_constructible /\ t.is_trivially_destructible

\* T() made to give an object unlike the other objects of T
T_default_distinct(t) == t.constant[1] + 1

\* T() : only used on the tidy_obj path, where T is empty
T_default(t) == t.constant[1]

---------------------------------------------------------------------------
(* The source views V the tests and examples put under a take_before_view. *)

Base(k, s, a) == [kind |-> k, buf |-> s, arg |-> a]

NoBase == Base("none", <<>>, 0)

Reverse(s) == [i \in 1 .. Len(s) |-> s[Len(s) + 1 - i]]
IsEven(e) == e % 2 = 0

\* the elements the source view presents, in iteration order
Elements(b) ==
    CASE b.kind = "transform_view" -> [i \in 1 .. Len(b.buf) |-> b.buf[i] * 2]
      [] b.kind = "filter_view" -> SelectSeq(b.buf, IsEven)
      [] b.kind = "reverse_view" -> Reverse(b.buf)
      [] b.kind = "take_view" -> SubSeq(b.buf, 1, Min(b.arg, Len(b.buf)))
      [] b.kind = "drop_view" -> SubSeq(b.buf, Min(b.arg, Len(b.buf)) + 1, Len(b.buf))
      [] OTHER -> b.buf

\* ranges::begin(base_) made to give the start of the storage
ranges_begin_storage(b) == 0

\* std::ranges::begin(base_)
ranges_begin(b) == IF b.kind = "subrange_unreachable" THEN b.arg ELSE 0

\* std::ranges::end(base_): a position, or std::unreachable_sentinel
ranges_end(b) ==
    IF b.kind = "subrange_unreachable"
    THEN [unreachable |-> TRUE, pos |-> 0]
    ELSE [unreachable |-> FALSE, pos |-> Len(Elements(b))]

\* y.end_ == x
end_eq(e, x) == ~e.unreachable /\ e.pos = x

\* *x made to read the element of the underlying container
Deref_original(b, x) ==
    IF x < Len(b.buf) THEN b.buf[x + 1] ELSE Indeterminate

\* *x : the element at a cursor; past the storage the read is undefined
Deref(b, x) ==
    IF x < Len(Elements(b)) THEN Elements(b)[x + 1] ELSE Indeterminate

\* std::ranges::enable_borrowed_range<V>
enable_borrowed_range_V(b) ==
    b.kind \in {"ref_view", "subrange", "subrange_unreachable",
                "reverse_view", "take_view", "drop_view"}

\* range<const V>: the source can be iterated through a const handle
\* (std::ranges::filter_view has no const begin())
const_iterable(b) == b.kind # "filter_view"

\* simple_view<V>: const and non-const iteration of the source use the same
\* cursor and marker types
simple_view(b) ==
    /\ const_iterable(b)
    /\ b.kind \notin {"owning_view", "transform_view"}

---------------------------------------------------------------------------
(* take_before_view *)

NoView == [base_ |-> NoBase, value_ |-> <<>>, T |-> int_t]

\* take_before_view(V base, const T& value) / (V base, T&& value)
take_before_view(b, x, t) == [base_ |-> b, value_ |-> <<x>>, T |-> t]

\* take_before_view() = default : base_ = V(), value_ disengaged
take_before_view_default(k, t) == [base_ |-> Base(k, <<>>, 0), value_ |-> <<>>, T |-> t]

\* begin() made to skip the first element
begin_second(v) == ranges_begin(v.base_) + 1

\* begin() made to resume at the cursor of the last loop
begin_stale(v) == it

\* begin() requires (!simple_view<V>)
begin(v) == ranges_begin(v.base_)

\* begin() const made to skip the first element
begin_const_second(v) == ranges_begin(v.base_) + 1

\* begin() const made to return the position the last loop has reached
begin_const_shared(v) == it

\* begin() const requires range<const V>
begin_const(v) == ranges_begin(v.base_)

\* the handles a view can be iterated through: FALSE a non-const one,
\* TRUE a const one
Handles(v) == {h \in BOOLEAN : h => const_iterable(v.base_)}

\* whether a call on a handle selects the const overload: a const handle
\* does, and so does any handle of a view over a simple source, which has
\* no other overload
selects_const(v, h) == h \/ simple_view(v.base_)

\* b.begin() on a handle
call_begin(v, h) == IF selects_const(v, h) THEN begin_const(v) ELSE begin(v)

\* whether end() can be evaluated with defined behaviour
end_defined(v) == tidy_obj(v.T) \/ Len(v.value_) > 0

\* end() made to record the position after the source's end
end_past(v) ==
    [end_ |-> [ranges_end(v.base_) EXCEPT !.pos = @ + 1],
     value_ |-> IF tidy_obj(v.T) THEN "nullptr" ELSE "addressof_value_",
     Const |-> FALSE]

\* end() requires (!simple_view<V>) : a sentinel<false>
end(v) ==
    IF tidy_obj(v.T)
    THEN [end_ |-> ranges_end(v.base_), value_ |-> "nullptr", Const |-> FALSE]
    ELSE [end_ |-> ranges_end(v.base_), value_ |-> "addressof_value_",
          Const |-> FALSE]

\* end() const made to record the position after the source's end
end_const_past(v) ==
    [end_ |-> [ranges_end(v.base_) EXCEPT !.pos = @ + 1],
     value_ |-> IF tidy_obj(v.T) THEN "nullptr" ELSE "addressof_value_",
     Const |-> TRUE]

\* end() const requires range<const V> : a sentinel<true>
end_const(v) ==
    IF tidy_obj(v.T)
    THEN [end_ |-> ranges_end(v.base_), value_ |-> "nullptr", Const |-> TRUE]
    ELSE [end_ |-> ranges_end(v.base_), value_ |-> "addressof_value_",
          Const |-> TRUE]

\* end() made to move value_ out of the view
view_after_begin_end_moved(v) == [v EXCEPT !.value_ = <<>>]

\* the view after begin() and end(): neither writes a member
view_after_begin_end(v) == v

\* b.end() on a handle
call_end(v, h) == IF selects_const(v, h) THEN end_const(v) ELSE end(v)

\* *y.value_ : the delimiter read through the marker's pointer
DerefValue(v, y) ==
    IF y.value_ = "addressof_value_" /\ Len(v.value_) > 0
    THEN v.value_[1]
    ELSE Indeterminate

\* a == b made a != b
equal_to_negated(a, b) ==
    IF a = Indeterminate \/ b = Indeterminate THEN {TRUE, FALSE} ELSE {a # b}

\* a == b on element values: the results the comparison can give
equal_to(a, b) ==
    IF a = Indeterminate \/ b = Indeterminate THEN {TRUE, FALSE} ELSE {a = b}

\* operator== made to test exhaustion only
sentinel_eq_end_only(v, x, y) == {end_eq(y.end_, x)}

\* operator== made to test the value only
sentinel_eq_value_only(v, x, y) ==
    IF tidy_obj(v.T)
    THEN equal_to(T_default(v.T), Deref(v.base_, x))
    ELSE equal_to(DerefValue(v, y), Deref(v.base_, x))

\* operator== made to hold at the position after the match
sentinel_eq_after_match(v, x, y) ==
    IF end_eq(y.end_, x)
    THEN {TRUE}
    ELSE IF x = ranges_begin(v.base_)
         THEN {FALSE}
         ELSE equal_to(IF tidy_obj(v.T) THEN T_default(v.T) ELSE DerefValue(v, y),
                       Deref(v.base_, x - 1))

\* operator==(x, y): the results the comparison can give
sentinel_eq(v, x, y) ==
    IF end_eq(y.end_, x)
    THEN {TRUE}
    ELSE IF tidy_obj(v.T)
         THEN equal_to(T_default(v.T), Deref(v.base_, x))
         ELSE equal_to(DerefValue(v, y), Deref(v.base_, x))

\* operator== for a cursor of the other mode, made to test exhaustion only
sentinel_eq_other_end_only(v, x, y) == {end_eq(y.end_, x)}

\* operator==(x, y) for x a cursor of the other mode (OtherConst = !Const)
sentinel_eq_other(v, x, y) ==
    IF end_eq(y.end_, x)
    THEN {TRUE}
    ELSE IF tidy_obj(v.T)
         THEN equal_to(T_default(v.T), Deref(v.base_, x))
         ELSE equal_to(DerefValue(v, y), Deref(v.base_, x))

\* copy_constructible<V>: std::ranges::owning_view can only be moved
copy_constructible_V(b) == b.kind # "owning_view"

\* a source after it was moved from: a view that refers to a container is
\* copied, an owning_view gives its container away
moved_from(b) == IF b.kind = "owning_view" THEN [b EXCEPT !.buf = <<>>] ELSE b

\* base() const& : a copy of base_
base_copy(v) == v.base_

\* base() const& made to move base_ out of the view
view_after_base_copy_moved(v) == [v EXCEPT !.base_ = NoBase]

\* the view after base() const&
view_after_base_copy(v) == v

\* base() && : base_, moved
base_move(v) == v.base_

\* the view after base() &&
view_after_base_move(v) == [v EXCEPT !.base_ = moved_from(@)]

\* sentinel::base() made to give the position the loop stopped at
sentinel_base_stopped(y) == [unreachable |-> FALSE, pos |-> it]

\* sentinel::base()
sentinel_base(y) == y.end_

\* operator== made to read *x before it tests exhaustion
sentinel_eq_derefs_eager(v, x, y) == <<x>>

\* operator== made to read the element after x as well
sentinel_eq_derefs_ahead(v, x, y) ==
    IF end_eq(y.end_, x) THEN <<>> ELSE <<x, x + 1>>

\* the cursor positions operator==(x, y) dereferences: || evaluates *x
\* only when y.end_ == x is false
sentinel_eq_derefs(v, x, y) == IF end_eq(y.end_, x) THEN <<>> ELSE <<x>>

\* whether operator==(x, y) dereferences y.value_: only on the path of a
\* T that is not tidy, and only when y.end_ == x is false
sentinel_eq_reads_value(v, x, y) == ~end_eq(y.end_, x) /\ ~tidy_obj(v.T)

\* it == e made to test exhaustion only
compare_end_only(v, x, xconst, y) == {end_eq(y.end_, x)}

\* it == e made never to hold
compare_never(v, x, xconst, y) == {FALSE}

\* it == e : the overload the operand types select
compare(v, x, xconst, y) ==
    IF xconst = y.Const THEN sentinel_eq(v, x, y) ELSE sentinel_eq_other(v, x, y)

\* sentinel<to>(sentinel<from> s) is declared for to = Const = !from only
sentinel_convertible(v, from, to) ==
    /\ to /\ ~from
    /\ const_iterable(v.base_)

\* the converting constructor made to leave value_ at its initializer
sentinel_convert_end_only(v, s, to) ==
    [end_ |-> s.end_, value_ |-> "nullptr", Const |-> to]

\* sentinel<Const>(sentinel<!Const> s)
sentinel_convert(v, s, to) ==
    [end_ |-> s.end_,
     value_ |-> IF ~tidy_obj(v.T) THEN s.value_ ELSE "nullptr",
     Const |-> to]

\* view_interface<take_before_view>::empty(): begin() == end()
empty(v) == sentinel_eq(v, call_begin(v, FALSE), call_end(v, FALSE))

\* view_interface<take_before_view>::front(): *begin()
front(v) == Deref(v.base_, call_begin(v, FALSE))

\* y == x, the reversed candidate the language derives from operator==(x, y)
sentinel_eq_reversed(v, y, x) == sentinel_eq(v, x, y)

\* enable_borrowed_range made to follow the source only
enable_borrowed_range_source_only(v) == enable_borrowed_range_V(v.base_)

\* enable_borrowed_range<take_before_view<V, T>>
enable_borrowed_range(v) == enable_borrowed_range_V(v.base_) /\ tidy_obj(v.T)

---------------------------------------------------------------------------
(* views::take_before : take_before_fn and take_before_closure *)

\* std::views::all(r): a view is passed through, a container is wrapped
views_all(r) == r

\* overload 1: take_before(r, value)
take_before_fn_range(r, value, t) == take_before_view(views_all(r), value, t)

\* overload 2 made to bound the sequence by the end of the storage
take_before_fn_iterator_bounded(s, i, value, t) ==
    take_before_view(Base("subrange", SubSeq(s, i + 1, Len(s)), 0), value, t)

\* overload 2: take_before(i, value), i a position in storage s
take_before_fn_iterator(s, i, value, t) ==
    take_before_view(Base("subrange_unreachable", s, i), value, t)

\* overload 3: take_before(value)
take_before_fn_value(value, t) == [value_ |-> value, T |-> t]

\* take_before_closure::operator()(r) const
closure_call(c, r) == take_before_view(views_all(r), c.value_, c.T)

\* operator() made to move value_ out of the closure
closure_moved_from(c) == [c EXCEPT !.value_ = 0]

\* the closure object after operator() const
closure_after_call(c) == c

\* operator|(r, self)
closure_pipe(r, c) == closure_call(c, r)

---------------------------------------------------------------------------
(* What the callers pass in *)

TakeCounts == {2}
AdaptorTypes == {int_t} \cup {TypeOf(TRUE, TRUE, TRUE, <<k>>) : k \in Delim}

Containers == {Base("ref_view", s, 0) : s \in Sources}
Adapted ==
    {Base(k, s, 0) : k \in {"transform_view", "filter_view", "reverse_view"},
                     s \in Sources}
    \cup {Base(k, s, n) : k \in {"take_view", "drop_view"}, s \in Sources,
                          n \in TakeCounts}
DirectBases == {Base("subrange", s, 0) : s \in Sources}

NoSentinel ==
    [end_ |-> [unreachable |-> FALSE, pos |-> 0], value_ |-> "nullptr",
     Const |-> FALSE]

NoOther ==
    [pc |-> "none", same |-> FALSE, view |-> NoView, it |-> 0,
     it_const |-> FALSE, sent |-> NoSentinel, out |-> <<>>]

Fresh ==
    /\ it' = 0
    /\ it_const' = FALSE
    /\ sent' = NoSentinel
    /\ out' = <<>>
    /\ runs' = <<>>
    /\ dropped' = FALSE
    /\ modes' = <<>>
    /\ got' = NoBase
    /\ derefs' = <<>>
    /\ other' = NoOther

Init ==
    /\ pc = "none"
    /\ view = NoView
    /\ closure = <<>>
    /\ entry = "none"
    /\ given = [r |-> NoBase, x |-> 0]
    /\ it = 0
    /\ it_const = FALSE
    /\ sent = NoSentinel
    /\ out = <<>>
    /\ runs = <<>>
    /\ dropped = FALSE
    /\ made = FALSE
    /\ reused = FALSE
    /\ modes = <<>>
    /\ got = NoBase
    /\ derefs = <<>>
    /\ other = NoOther

\* auto b = views::take_before(v, x);
TakeBeforeRange ==
    /\ pc = "none" /\ closure = <<>>
    /\ \E r \in Containers, t \in AdaptorTypes :
         \E x \in ValuesOf(t) :
            /\ view' = take_before_fn_range(r, x, t)
            /\ given' = [r |-> r, x |-> x]
    /\ entry' = "range"
    /\ pc' = "ready"
    /\ Fresh
    /\ UNCHANGED <<closure, made, reused>>

\* auto b = views::take_before(p, x);  p a pointer into a buffer
TakeBeforeIterator ==
    /\ pc = "none" /\ closure = <<>>
    /\ \E s \in Sources, t \in AdaptorTypes :
         \E i \in 0 .. Len(s), x \in ValuesOf(t) :
            /\ view' = take_before_fn_iterator(s, i, x, t)
            /\ given' = [r |-> Base("subrange_unreachable", s, i), x |-> x]
    /\ entry' = "iterator"
    /\ pc' = "ready"
    /\ Fresh
    /\ UNCHANGED <<closure, made, reused>>

\* auto c = views::take_before(x);
MakeClosure ==
    /\ pc = "none" /\ closure = <<>>
    /\ \E t \in AdaptorTypes :
         \E x \in ValuesOf(t) :
            /\ closure' = <<take_before_fn_value(x, t)>>
            /\ given' = [r |-> NoBase, x |-> x]
    /\ UNCHANGED <<other, pc, view, entry, it, it_const, sent, out, runs, dropped, made, reused,
                 modes, got, derefs>>

\* auto b = c(v);
ClosureCall ==
    /\ closure # <<>>
    /\ pc = "none"
    /\ \E r \in Containers :
         /\ view' = closure_call(closure[1], r)
         /\ given' = [given EXCEPT !.r = r]
    /\ closure' = <<closure_after_call(closure[1])>>
    /\ entry' = "call"
    /\ made' = TRUE
    /\ reused' = made
    /\ pc' = "ready"
    /\ Fresh

\* auto b = v | c;   auto b = v | std::views::transform(f) | c;
ClosurePipe ==
    /\ closure # <<>>
    /\ pc = "none"
    /\ \E r \in Containers \cup Adapted :
         /\ view' = closure_pipe(r, closure[1])
         /\ given' = [given EXCEPT !.r = r]
    /\ closure' = <<closure_after_call(closure[1])>>
    /\ entry' = "pipe"
    /\ made' = TRUE
    /\ reused' = made
    /\ pc' = "ready"
    /\ Fresh

\* auto b = take_before_view(subr, x);
DirectConstruct ==
    /\ pc = "none" /\ closure = <<>>
    /\ \E r \in DirectBases, t \in AllTypes :
         \E x \in ValuesOf(t) :
            /\ view' = take_before_view(r, x, t)
            /\ given' = [r |-> r, x |-> x]
    /\ entry' = "ctor"
    /\ pc' = "ready"
    /\ Fresh
    /\ UNCHANGED <<closure, made, reused>>

\* take_before_view<V, T> view;
DefaultConstruct ==
    /\ pc = "none" /\ closure = <<>>
    /\ \E k \in {"subrange", "owning_view"}, t \in AllTypes :
         /\ view' = take_before_view_default(k, t)
         /\ given' = [r |-> Base(k, <<>>, 0), x |-> 0]
    /\ entry' = "default"
    /\ pc' = "ready"
    /\ Fresh
    /\ UNCHANGED <<closure, made, reused>>

---------------------------------------------------------------------------
(* for (auto it = b.begin(), e = b.end(); it != e; ++it) yield *it;        *)

\* every read of the last loop was inside the source's storage; after a
\* read outside it nothing more is known of the program
reads_defined ==
    \A k \in 1 .. Len(derefs) : derefs[k] < Len(Elements(view.base_))

\* it = b.begin(); e = b.end();  b the view or a const reference to it
LoopBegin ==
    /\ pc \in {"ready", "done"}
    /\ Len(runs) < MaxRuns
    /\ reads_defined
    /\ \E h \in Handles(view) :
         /\ it' = call_begin(view, h)
         /\ it_const' = selects_const(view, h)
         /\ sent' = call_end(view, h)
    /\ out' = <<>>
    /\ derefs' = <<>>
    /\ view' = view_after_begin_end(view)
    /\ pc' = "loop"
    /\ UNCHANGED <<other, closure, entry, given, runs, dropped, made, reused, modes, got>>

\* b.end() reads a disengaged optional: a checked build stops here
EndFault ==
    /\ pc \in {"ready", "done"}
    /\ ~end_defined(view)
    /\ pc' = "fault"
    /\ UNCHANGED <<other, view, closure, entry, given, it, it_const, sent, out, runs, dropped, made, reused,
                 modes, got, derefs>>

\* e = sentinel<to>(e);  the marker is converted to the other mode
Convert ==
    /\ pc = "loop"
    /\ \E to \in BOOLEAN :
         /\ sentinel_convertible(view, sent.Const, to)
         /\ sent' = sentinel_convert(view, sent, to)
    /\ UNCHANGED <<other, pc, view, closure, entry, given, it, it_const, out, runs, dropped,
                 made, reused, modes, got, derefs>>

\* it == e : the loop ends
LoopExit ==
    /\ pc = "loop"
    /\ TRUE \in compare(view, it, it_const, sent)
    /\ pc' = "done"
    /\ runs' = Append(runs, out)
    /\ modes' = Append(modes, it_const)
    /\ derefs' = derefs \o sentinel_eq_derefs(view, it, sent)
    /\ UNCHANGED <<other, view, closure, entry, given, it, it_const, sent, out, dropped, made,
                 reused, got>>

\* it != e : yield *it; ++it;
LoopBody ==
    /\ pc = "loop"
    /\ FALSE \in compare(view, it, it_const, sent)
    /\ it < Len(Elements(view.base_)) + MaxOverrun
    /\ out' = Append(out, Deref(view.base_, it))
    /\ it' = it + 1
    /\ derefs' = derefs \o sentinel_eq_derefs(view, it, sent) \o <<it>>
    /\ UNCHANGED <<other, pc, view, closure, entry, given, it_const, sent, runs, dropped, made,
                 reused, modes, got>>

\* whether it == e reads only live objects
compare_defined(v, x, y) ==
    \/ end_eq(y.end_, x)
    \/ /\ x < Len(Elements(v.base_))
       /\ tidy_obj(v.T) \/ (y.value_ = "addressof_value_" /\ Len(v.value_) > 0)

\* it == e reads past the storage or through a dead pointer: the read traps
LoopFault ==
    /\ pc = "loop"
    /\ ~compare_defined(view, it, sent)
    /\ pc' = "fault"
    /\ UNCHANGED <<other, view, closure, entry, given, it, it_const, sent, out, runs, dropped, made, reused,
                 modes, got, derefs>>

\* break;
LoopBreak ==
    /\ pc = "loop"
    /\ pc' = "ready"
    /\ dropped' = TRUE
    /\ it' = 0
    /\ it_const' = FALSE
    /\ sent' = NoSentinel
    /\ out' = <<>>
    /\ derefs' = <<>>
    /\ UNCHANGED <<other, view, closure, entry, given, runs, made, reused, modes, got>>

\* auto s = b.base();  after a loop over b
BaseCopy ==
    /\ pc = "done"
    /\ copy_constructible_V(view.base_)
    /\ got' = base_copy(view)
    /\ view' = view_after_base_copy(view)
    /\ UNCHANGED <<other, pc, closure, entry, given, it, it_const, sent, out, runs, dropped,
                 made, reused, modes, derefs>>

\* auto s = std::move(b).base();  b is not used again
BaseMove ==
    /\ pc \in {"ready", "done"}
    /\ got' = base_move(view)
    /\ view' = view_after_base_move(view)
    /\ pc' = "moved"
    /\ it' = 0
    /\ it_const' = FALSE
    /\ sent' = NoSentinel
    /\ out' = <<>>
    /\ derefs' = <<>>
    /\ UNCHANGED <<other, closure, entry, given, runs, dropped, made, reused, modes>>

\* the view leaves its scope; a closure outlives the views it made
Destroy ==
    /\ pc \in {"ready", "done", "moved"}
    /\ pc' = "none"
    /\ view' = NoView
    /\ entry' = "none"
    /\ given' = [given EXCEPT !.r = NoBase]
    /\ Fresh
    /\ UNCHANGED <<closure, made, reused>>

Next ==
    \/ TakeBeforeRange
    \/ TakeBeforeIterator
    \/ MakeClosure
    \/ ClosureCall
    \/ ClosurePipe
    \/ DirectConstruct
    \/ DefaultConstruct
    \/ LoopBegin
    \/ Convert
    \/ EndFault
    \/ LoopExit
    \/ LoopBody
    \/ LoopFault
    \/ LoopBreak
    \/ Destroy

Spec == Init /\ [][Next]_vars

\* callers who also take the source back with base(), over the views that
\* take_before(r, x), take_before(i, x) and the constructors make
BaseNext ==
    \/ TakeBeforeRange
    \/ TakeBeforeIterator
    \/ DirectConstruct
    \/ DefaultConstruct
    \/ LoopBegin
    \/ Convert
    \/ EndFault
    \/ LoopExit
    \/ LoopBody
    \/ LoopFault
    \/ LoopBreak
    \/ BaseCopy
    \/ BaseMove
    \/ Destroy

BaseSpec == Init /\ [][BaseNext]_vars

---------------------------------------------------------------------------
(* A second loop, run step by step alongside the first: over the same view *)
(* object, or over another view of the same source with a value of its own *)

\* the view the second loop's marker belongs to
OtherView == IF other.same THEN view ELSE other.view

\* auto it2 = b.begin(), e2 = b.end();  the same view b
SecondBeginSame ==
    /\ pc \in {"ready", "loop", "done"}
    /\ other.pc = "none"
    /\ \E h \in Handles(view) :
         other' = [pc |-> "loop", same |-> TRUE, view |-> NoView,
                   it |-> call_begin(view, h),
                   it_const |-> selects_const(view, h),
                   sent |-> call_end(view, h), out |-> <<>>]
    /\ view' = view_after_begin_end(view)
    /\ UNCHANGED <<pc, closure, entry, given, it, it_const, sent, out, runs, dropped,
                 made, reused, modes, got, derefs>>

\* auto b2 = take_before_view(b.base(), x2);  it2 = b2.begin(), e2 = b2.end();
SecondBeginOther ==
    /\ pc \in {"ready", "loop", "done"}
    /\ other.pc = "none"
    /\ copy_constructible_V(view.base_)
    /\ \E x2 \in ValuesOf(view.T) :
         LET b2 == take_before_view(base_copy(view), x2, view.T)
         IN \E h \in Handles(b2) :
               other' = [pc |-> "loop", same |-> FALSE,
                         view |-> view_after_begin_end(b2),
                         it |-> call_begin(b2, h),
                         it_const |-> selects_const(b2, h),
                         sent |-> call_end(b2, h), out |-> <<>>]
    /\ view' = view_after_base_copy(view)
    /\ UNCHANGED <<pc, closure, entry, given, it, it_const, sent, out, runs, dropped,
                 made, reused, modes, got, derefs>>

\* it2 == e2 : the second loop ends
SecondExit ==
    /\ other.pc = "loop"
    /\ TRUE \in compare(OtherView, other.it, other.it_const, other.sent)
    /\ other' = [other EXCEPT !.pc = "done"]
    /\ UNCHANGED <<pc, view, closure, entry, given, it, it_const, sent, out, runs,
                 dropped, made, reused, modes, got, derefs>>

\* it2 != e2 : yield *it2; ++it2;
SecondBody ==
    /\ other.pc = "loop"
    /\ FALSE \in compare(OtherView, other.it, other.it_const, other.sent)
    /\ other.it < Len(Elements(OtherView.base_)) + MaxOverrun
    /\ other' = [other EXCEPT !.out = Append(@, Deref(OtherView.base_, other.it)),
                              !.it = @ + 1]
    /\ UNCHANGED <<pc, view, closure, entry, given, it, it_const, sent, out, runs,
                 dropped, made, reused, modes, got, derefs>>

\* two loops over views that take_before(r, x) made, in any interleaving
PairNext ==
    \/ TakeBeforeRange
    \/ LoopBegin
    \/ LoopExit
    \/ LoopBody
    \/ LoopBreak
    \/ SecondBeginSame
    \/ SecondBeginOther
    \/ SecondExit
    \/ SecondBody
    \/ Destroy

PairSpec == Init /\ [][PairNext]_vars

---------------------------------------------------------------------------
(* The sequence the caller handed over, and what the view is to yield *)

\* the elements from the source's begin to the end of its storage
Shown(r) ==
    IF r.kind = "subrange_unreachable"
    THEN SubSeq(r.buf, r.arg + 1, Len(r.buf))
    ELSE Elements(r)

Occurs(s, x) == \E i \in 1 .. Len(s) : s[i] = x

Count(s, x) == Cardinality({i \in 1 .. Len(s) : s[i] = x})

\* 0-based index of the first occurrence of x in s
FirstAt(s, x) ==
    CHOOSE p \in 0 .. Len(s) - 1 : s[p + 1] = x /\ \A q \in 1 .. p : s[q] # x

\* the elements of s before the first x, all of s if there is none
Truncated(s, x) == IF Occurs(s, x) THEN SubSeq(s, 1, FirstAt(s, x)) ELSE s

GivenS == Shown(given.r)

\* the delimiter the view compares with
StoredValue(v) == IF tidy_obj(v.T) THEN T_default(v.T) ELSE v.value_[1]

\* the cursor positions of a source: up to its end, or inside its storage
Positions(r) ==
    IF r.kind = "subrange_unreachable"
    THEN r.arg .. Len(r.buf) - 1
    ELSE 0 .. Len(Elements(r))

\* p is the source's own end position
AtSourceEnd(r, p) == r.kind # "subrange_unreachable" /\ p = Len(Elements(r))

\* p is at an element equal to the view's delimiter
AtDelimiter(v, p) ==
    /\ p < Len(Elements(v.base_))
    /\ Elements(v.base_)[p + 1] = StoredValue(v)

\* the source's own start position
SourceStart(r) == IF r.kind = "subrange_unreachable" THEN r.arg ELSE 0

\* e is the source's own end: the end of a bounded source, the end test
\* that is never true of an unbounded one
IsSourceEnd(r, e) ==
    IF r.kind = "subrange_unreachable"
    THEN e.unreachable
    ELSE ~e.unreachable /\ e.pos = Len(Shown(r))

\* the delimiter ends the sequence: an unbounded source holds x from i on
Terminated(r, x) == r.kind = "subrange_unreachable" => Occurs(Shown(r), x)

---------------------------------------------------------------------------
\* C1 First-match: when x occurs in S, the loop over take_before(S, x) ends
\* with exactly S[0..p1) yielded, p1 the first occurrence, and the cursor at
\* p1; occurrences after p1 change nothing.
C1_FirstMatch ==
    (pc = "done" /\ entry = "range" /\ Occurs(GivenS, given.x))
        => /\ out = SubSeq(GivenS, 1, FirstAt(GivenS, given.x))
           /\ it = FirstAt(GivenS, given.x)
           /\ runs[Len(runs)] = out

C1_Witness ==
    /\ pc = "done" /\ entry = "range"
    /\ Count(GivenS, given.x) >= 2
    /\ FirstAt(GivenS, given.x) >= 1
    /\ out = <<GivenS[1]>>

\* C2 Absence: when x does not occur in S, the loop yields all of S, in
\* order, and stops with the cursor at S's own end.
C2_Absence ==
    (pc = "done" /\ entry = "range" /\ ~Occurs(GivenS, given.x))
        => /\ out = GivenS
           /\ it = Len(GivenS)
           /\ end_eq(ranges_end(given.r), it)
           /\ end_eq(sent.end_, it)

C2_Witness ==
    /\ pc = "done" /\ entry = "range"
    /\ ~Occurs(GivenS, given.x)
    /\ Len(GivenS) = MaxLen
    /\ out = GivenS

\* C3 Immediate-match: for non-empty S, when S[0] = x then begin() == end()
\* with no advance and empty() is true; when S[0] # x then begin() # end(),
\* empty() is false and front() is S[0].
C3_ImmediateMatch ==
    (pc # "none" /\ entry = "range" /\ GivenS # <<>>)
        => IF GivenS[1] = given.x
           THEN /\ sentinel_eq(view, call_begin(view, FALSE),
                               call_end(view, FALSE)) = {TRUE}
                /\ empty(view) = {TRUE}
                /\ pc = "done" => (out = <<>> /\ it = call_begin(view, FALSE))
           ELSE /\ sentinel_eq(view, call_begin(view, FALSE),
                               call_end(view, FALSE)) = {FALSE}
                /\ empty(view) = {FALSE}
                /\ front(view) = GivenS[1]
                /\ pc = "done" => (out # <<>> /\ out[1] = GivenS[1])

C3_Witness ==
    /\ pc = "done" /\ entry = "range"
    /\ Len(GivenS) >= 2
    /\ GivenS[1] = given.x
    /\ out = <<>>

\* C4 Empty-source: over an empty S the view is empty whatever x is:
\* begin() == end(), and a loop yields nothing.
C4_EmptySource ==
    (pc # "none" /\ entry = "range" /\ GivenS = <<>>)
        => /\ sentinel_eq(view, call_begin(view, FALSE),
                          call_end(view, FALSE)) = {TRUE}
           /\ empty(view) = {TRUE}
           /\ pc = "done" => out = <<>>

C4_Witness ==
    /\ pc = "done" /\ entry = "range"
    /\ GivenS = <<>>
    /\ given.x = 2 * MaxElem
    /\ out = <<>>

\* C5 End marker: end() compares equal to a cursor position p of the source
\* exactly when p is the source's end or the element at p equals the stored
\* value, in either operand order; the loop's own marker behaves the same.
\* (Every position of a view is compared once, when the view is made: no
\* action changes a view.)
C5_EndMarker ==
    /\ pc = "ready" =>
          \A p \in Positions(view.base_) :
              LET expect == AtSourceEnd(view.base_, p) \/ AtDelimiter(view, p)
              IN /\ sentinel_eq(view, p, call_end(view, FALSE)) = {expect}
                 /\ sentinel_eq_reversed(view, call_end(view, FALSE), p) = {expect}
    /\ (pc = "loop" /\ it \in Positions(view.base_)) =>
          sentinel_eq(view, it, sent)
              = {AtSourceEnd(view.base_, it) \/ AtDelimiter(view, it)}

C5_Witness ==
    /\ pc = "loop" /\ entry = "ctor"
    /\ ~tidy_obj(view.T)
    /\ it >= 1
    /\ AtDelimiter(view, it)
    /\ ~AtSourceEnd(view.base_, it + 1)

\* C6 Idempotent re-iteration: every completed loop over the same view
\* yields the same elements, the truncated sequence, whether or not an
\* earlier loop was left part-way.
C6_Reiteration ==
    (pc # "none" /\ Terminated(given.r, given.x)) =>
        /\ \A i, j \in 1 .. Len(runs) : runs[i] = runs[j]
        /\ entry # "default" =>
              \A i \in 1 .. Len(runs) : runs[i] = Truncated(GivenS, given.x)
        /\ (pc = "done" /\ runs # <<>>) => out = runs[1]

C6_Witness ==
    /\ pc = "done"
    /\ Len(runs) >= 2
    /\ dropped
    /\ runs[1] # <<>>
    /\ Len(runs[1]) < Len(GivenS)

\* C7 Entry shape 2: take_before(i, x) with x at or after i makes a view
\* over the position with an end test that is never true, and yields the
\* elements from i up to the first x; the loop ends on the value match.
C7_IteratorEntry ==
    (entry = "iterator" /\ Occurs(GivenS, given.x)) =>
        /\ view.base_ = given.r
        /\ pc = "ready" =>
              \A p \in 0 .. Len(view.base_.buf) + MaxOverrun :
                  ~end_eq(call_end(view, FALSE).end_, p)
        /\ pc # "fault"
        /\ pc = "loop" =>
              /\ it <= given.r.arg + FirstAt(GivenS, given.x)
              /\ out = SubSeq(GivenS, 1, it - given.r.arg)
        /\ pc = "done" =>
              /\ out = SubSeq(GivenS, 1, FirstAt(GivenS, given.x))
              /\ it = given.r.arg + FirstAt(GivenS, given.x)
              /\ view.base_.buf[it + 1] = given.x
              /\ ~end_eq(sent.end_, it)

C7_Witness ==
    /\ pc = "done" /\ entry = "iterator"
    /\ given.r.arg >= 1
    /\ out # <<>>
    /\ Occurs(GivenS, given.x)

\* C8 Entry shape 3 equals entry shape 1: the closure of take_before(x),
\* called or piped, makes the view take_before(S, x) makes, which yields
\* the same elements; the closure keeps x through every application.
C8_Closure ==
    /\ closure # <<>> => closure[1].value_ = given.x
    /\ (entry \in {"call", "pipe"} /\ given.r \in Containers) =>
          /\ view = take_before_fn_range(given.r, given.x, closure[1].T)
          /\ pc = "done" => out = Truncated(GivenS, given.x)

C8_Witness ==
    /\ pc = "done" /\ entry = "pipe"
    /\ given.r \in Containers
    /\ reused
    /\ given.x # 0
    /\ Occurs(GivenS, given.x)
    /\ out # <<>>

\* C9 Composition: piped after another adaptor, the view yields the
\* adapted sequence up to its first element equal to x; elements of the
\* underlying container take no part in the match.
C9_Composition ==
    (entry = "pipe" /\ given.r \in Adapted) =>
        /\ view.base_ = given.r
        /\ pc = "done" =>
              /\ out = Truncated(Elements(given.r), given.x)
              /\ it = Len(out)

C9_Witness ==
    /\ pc = "done" /\ entry = "pipe"
    /\ given.r.kind = "transform_view"
    /\ Occurs(given.r.buf, given.x)
    /\ ~Occurs(Elements(given.r), given.x)
    /\ out = Elements(given.r)
    /\ out # <<>>

\* C10 Borrowing: the view is borrowed exactly when its source is borrowed
\* and T is empty, trivially default constructible and trivially
\* destructible; over any other T, such as int or std::string, it is not.
C10_Borrowing ==
    pc # "none" =>
        /\ enable_borrowed_range(view)
              <=> /\ enable_borrowed_range_V(view.base_)
                  /\ view.T.is_empty
                  /\ view.T.is_trivially_default_constructible
                  /\ view.T.is_trivially_destructible
        /\ view.T \in {int_t, string_t} => ~enable_borrowed_range(view)

C10_Witness ==
    /\ entry = "ctor"
    /\ view.base_.kind = "subrange"
    /\ enable_borrowed_range_V(view.base_)
    /\ view.T = int_t
    /\ ~enable_borrowed_range(view)

\* C11 Const and non-const access agree: over a source that can be iterated
\* both ways, a loop through a const handle yields the same elements as a
\* loop through a non-const handle, both start at the same position, and an
\* end marker gives a cursor of the other mode the result it gives a cursor
\* of its own mode at the same position.
C11_ConstAccess ==
    /\ (pc # "none" /\ Terminated(given.r, given.x)) =>
          \A i, j \in 1 .. Len(runs) :
              modes[i] # modes[j] => runs[i] = runs[j]
    /\ (pc = "done" /\ entry # "default" /\ Terminated(given.r, given.x)) =>
          out = Truncated(GivenS, given.x)
    /\ (pc = "ready" /\ Handles(view) = BOOLEAN) =>
          /\ call_begin(view, TRUE) = call_begin(view, FALSE)
          /\ \A h \in BOOLEAN, p \in Positions(view.base_) :
                sentinel_eq_other(view, p, call_end(view, h))
                    = sentinel_eq(view, p, call_end(view, h))

C11_Witness ==
    /\ pc = "done"
    /\ ~simple_view(view.base_)
    /\ modes = <<FALSE, TRUE>>
    /\ runs[2] # <<>>
    /\ Len(runs[2]) < Len(Elements(view.base_))
    /\ sent.Const

\* C12 Marker conversion: a sentinel<false> converts to a sentinel<true>
\* with the same end_ and, for a non-tidy T, the same value_ pointer, so the
\* converted marker is equal to exactly the positions the original is equal
\* to; no marker of a const handle becomes a sentinel<false>.
C12_Conversion ==
    /\ (pc = "ready" /\ ~simple_view(view.base_)) =>
          LET s == end(view)
              c == sentinel_convert(view, s, TRUE)
          IN /\ sentinel_convertible(view, s.Const, TRUE)
                   <=> const_iterable(view.base_)
             /\ c.Const /\ c.end_ = s.end_
             /\ ~tidy_obj(view.T) => c.value_ = s.value_
             /\ \A p \in Positions(view.base_) :
                   /\ sentinel_eq_other(view, p, c) = sentinel_eq(view, p, s)
                   /\ sentinel_eq(view, p, c) = sentinel_eq(view, p, s)
    /\ pc # "none" =>
          \A from \in BOOLEAN : ~sentinel_convertible(view, from, FALSE)
    /\ (pc \in {"loop", "done"} /\ it_const) => sent.Const
    /\ (pc \in {"loop", "done"} /\ sent.Const /\ ~it_const) =>
          /\ sent = sentinel_convert(view, end(view), TRUE)
          /\ (pc = "done" /\ entry # "default") =>
                out = Truncated(GivenS, given.x)

C12_Witness ==
    /\ pc = "done"
    /\ sent.Const /\ ~it_const
    /\ ~tidy_obj(view.T)
    /\ sent.value_ = "addressof_value_"
    /\ out # <<>>
    /\ AtDelimiter(view, it)

\* C13 begin() is the source's begin: in every state of a view, whatever
\* loops ran or were left before and whatever end() or base() calls were
\* made, begin() returns the source's own start position, whatever the
\* stored value is; a loop's cursor is that position plus its advances.
C13_BeginIsSourceBegin ==
    pc \notin {"none", "moved"} =>
        /\ \A h \in Handles(view) : call_begin(view, h) = SourceStart(given.r)
        /\ pc \in {"loop", "done"} => it = SourceStart(given.r) + Len(out)

C13_Witness ==
    /\ pc = "loop"
    /\ SourceStart(given.r) >= 1
    /\ runs # <<>> /\ runs[1] # <<>>
    /\ dropped
    /\ got # NoBase
    /\ out = <<>>
    /\ it = SourceStart(given.r)

\* C14 end().base() is the source's end: the position a marker records is
\* the source's own end, whether and wherever the value occurs in the
\* source, and it stays so while the loop runs and after it stopped.
\* (The markers of both handles are looked at once for each view, when it
\* is made; the marker of each loop in every state of the loop.)
C14_EndBase ==
    /\ pc = "ready" =>
          \A h \in Handles(view) :
              IsSourceEnd(given.r, sentinel_base(call_end(view, h)))
    /\ pc \in {"loop", "done"} => IsSourceEnd(given.r, sentinel_base(sent))

C14_Witness ==
    /\ pc = "done"
    /\ Occurs(GivenS, given.x)
    /\ out # <<>>
    /\ it + 1 < Len(GivenS)
    /\ given.r.kind # "subrange_unreachable"
    /\ sentinel_base(sent).pos = Len(GivenS)

\* C15 base(): base() returns the whole source, with the first occurrence
\* of the value and everything after it; the lvalue form returns a copy and
\* leaves the view as it was, so a loop after the call yields what the loop
\* before it yielded.
C15_Base ==
    got # NoBase =>
        /\ got = given.r
        /\ Shown(got) = GivenS
        /\ pc # "moved" =>
              /\ view.base_ = given.r
              /\ entry # "default" => view.value_ = <<given.x>>
        /\ (pc \in {"loop", "done"} /\ runs # <<>>
               /\ Terminated(given.r, given.x)) =>
              /\ Len(out) <= Len(runs[1])
              /\ out = SubSeq(runs[1], 1, Len(out))
              /\ pc = "done" => out = runs[1]

C15_Witness ==
    /\ pc = "loop"
    /\ got # NoBase
    /\ Len(runs) = 1
    /\ out # <<>>
    /\ out = runs[1]
    /\ Occurs(Shown(got), given.x)
    /\ Len(out) + 1 < Len(Shown(got))

\* C16 No side effects: after construction, and after any number of
\* begin() and end() calls, comparisons and loops, the view stores the
\* source and the value it was made with, and the source holds the elements
\* it held.
C16_NoSideEffects ==
    pc \notin {"none", "moved"} =>
        /\ view.base_ = given.r
        /\ Elements(view.base_) = Elements(given.r)
        /\ view.value_ = IF entry = "default" THEN <<>> ELSE <<given.x>>
        /\ closure # <<>> => closure[1].value_ = given.x

C16_Witness ==
    /\ pc = "done"
    /\ Len(runs) >= 2
    /\ dropped
    /\ ~tidy_obj(view.T)
    /\ ~it_const
    /\ out # <<>>
    /\ view = take_before_view(given.r, given.x, view.T)

\* C17 Termination on finite input: over a finite source of n elements
\* reached through take_before(r, x) or a closure, the loop never advances
\* more than n times and cannot stall: where the value or the end is
\* reached the comparison holds and the loop ends, before that it does not
\* hold and the cursor advances; the loop ends after exactly p1 advances
\* when x first occurs at p1, after exactly n when x is absent.
C17_Termination ==
    (entry \in {"range", "call", "pipe"} /\ pc \in {"loop", "done"}) =>
        LET n == Len(GivenS)
            advances == it - SourceStart(given.r)
            last == IF Occurs(GivenS, given.x)
                    THEN FirstAt(GivenS, given.x) ELSE n
        IN /\ advances = Len(out)
           /\ advances <= last /\ last <= n
           /\ pc = "loop" =>
                 compare(view, it, it_const, sent) = {advances = last}
           /\ pc = "done" => advances = last

C17_Witness ==
    /\ pc = "done" /\ entry = "call"
    /\ Len(GivenS) = MaxLen
    /\ Occurs(GivenS, given.x)
    /\ it = MaxLen - 1
    /\ Len(out) = it

\* C18 Stored value always present: a view over a T that is not tidy,
\* however it was constructed, holds a value, end() can read it, and the
\* marker of every loop points to that live value.
C18_ValuePresent ==
    (pc \notin {"none", "moved"} /\ ~tidy_obj(view.T)) =>
        /\ Len(view.value_) > 0
        /\ end_defined(view)
        /\ pc \in {"loop", "done"} =>
              /\ sent.value_ = "addressof_value_"
              /\ DerefValue(view, sent) = view.value_[1]

\* C19 Short-circuit on exhaustion: operator== tests exhaustion first and
\* dereferences the cursor only when it is not at the source's end; no loop
\* ever dereferences a cursor at the source's end.
C19_ShortCircuit ==
    /\ pc = "ready" =>
          \A h \in Handles(view), p \in Positions(view.base_) :
              AtSourceEnd(view.base_, p)
                  => sentinel_eq_derefs(view, p, call_end(view, h)) = <<>>
    /\ pc \in {"loop", "done"} =>
          \A k \in 1 .. Len(derefs) : ~AtSourceEnd(view.base_, derefs[k])

C19_Witness ==
    /\ pc = "done"
    /\ given.r.kind # "subrange_unreachable"
    /\ ~Occurs(GivenS, given.x)
    /\ Len(GivenS) >= 2
    /\ AtSourceEnd(view.base_, it)
    /\ Len(derefs) = 2 * Len(GivenS)

\* C20 No lookahead: when x first occurs at p1, a loop dereferences only
\* the positions 0..p1 of the sequence, in non-decreasing order, and never
\* one after the first match; the cursor is never behind a position it
\* has read.
C20_NoLookahead ==
    (pc \in {"loop", "done"} /\ Occurs(GivenS, given.x)) =>
        /\ \A k \in 1 .. Len(derefs) :
              /\ derefs[k] >= SourceStart(given.r)
              /\ derefs[k] <= SourceStart(given.r) + FirstAt(GivenS, given.x)
              /\ derefs[k] <= it
        /\ \A k \in 1 .. Len(derefs) - 1 : derefs[k] <= derefs[k + 1]

C20_Witness ==
    /\ pc = "done"
    /\ Count(GivenS, given.x) >= 2
    /\ FirstAt(GivenS, given.x) >= 1
    /\ derefs # <<>>
    /\ derefs[Len(derefs)] = SourceStart(given.r) + FirstAt(GivenS, given.x)
    /\ it + 1 < SourceStart(given.r) + Len(GivenS)

\* C21 Zero-footprint path: over a tidy T, end() builds the marker from the
\* source's end alone, the marker's value pointer stays null and no
\* comparison dereferences it, every comparison uses T(), and comparisons
\* and loops give what they would give with the stored value.
C21_TidyPath ==
    (pc \notin {"none", "moved"} /\ tidy_obj(view.T)) =>
        /\ pc = "ready" =>
              \A h \in Handles(view), p \in Positions(view.base_) :
                  LET e == call_end(view, h)
                  IN /\ e.value_ = "nullptr"
                     /\ e.end_ = ranges_end(view.base_)
                     /\ ~sentinel_eq_reads_value(view, p, e)
                     /\ compare(view, p, selects_const(view, h), e)
                           = {AtSourceEnd(view.base_, p)
                                \/ Deref(view.base_, p) = T_default(view.T)}
                     /\ entry # "default" =>
                           compare(view, p, selects_const(view, h), e)
                               = {AtSourceEnd(view.base_, p)
                                    \/ Deref(view.base_, p) = view.value_[1]}
        /\ pc \in {"loop", "done"} =>
              /\ sent.value_ = "nullptr"
              /\ ~sentinel_eq_reads_value(view, it, sent)
        /\ (pc = "done" /\ entry # "default"
               /\ Terminated(given.r, given.x)) =>
              out = Truncated(GivenS, view.value_[1])

C21_Witness ==
    /\ pc = "done"
    /\ tidy_obj(view.T)
    /\ sent.value_ = "nullptr"
    /\ out # <<>>
    /\ AtDelimiter(view, it)
    /\ Deref(view.base_, it) = T_default(view.T)
    /\ view.value_ = <<T_default(view.T)>>

\* the storage a cursor of the view may read: the elements of the buffer
InStorage(v, p) == p >= 0 /\ p < Len(v.base_.buf)

\* C22 as stated, bounded reads for entry shape 2: for every buffer B,
\* every start i in B and every value x, a loop over take_before(i, x)
\* dereferences no position outside B and its cursor never passes the end
\* of B.
C22_BoundedReads ==
    (entry = "iterator" /\ InStorage(view, given.r.arg)
       /\ pc \in {"loop", "done", "fault"}) =>
        /\ \A k \in 1 .. Len(derefs) : InStorage(view, derefs[k])
        /\ it <= Len(view.base_.buf)
        /\ pc # "fault"

\* C22 amended: when x occurs in B at or after i, a loop over
\* take_before(i, x) dereferences only positions from i to the first such
\* x, all in B, and its cursor never passes the end of B.
C22_BoundedReadsWhenPresent ==
    (entry = "iterator" /\ Occurs(GivenS, given.x)
       /\ pc \in {"loop", "done", "fault"}) =>
        /\ \A k \in 1 .. Len(derefs) : InStorage(view, derefs[k])
        /\ it <= Len(view.base_.buf)
        /\ pc # "fault"

C22_Witness ==
    /\ pc = "done" /\ entry = "iterator"
    /\ given.r.arg >= 1
    /\ Occurs(GivenS, given.x)
    /\ it = Len(view.base_.buf) - 1
    /\ Len(derefs) >= 3
    /\ derefs[Len(derefs)] = it

\* C23 Prefix invariant: at every step of a loop over a view of S with
\* value x, S ended by its own end or by x, the elements yielded so far are
\* S[0..k) for the cursor index k, none of them is x, and k is at most the
\* length of S; so no loop yields more elements than S has.
C23_Prefix ==
    (pc \in {"loop", "done"} /\ Terminated(given.r, given.x)) =>
        LET k == it - SourceStart(given.r)
        IN /\ k >= 0 /\ k <= Len(GivenS)
           /\ out = SubSeq(GivenS, 1, k)
           /\ \A j \in 1 .. Len(out) : out[j] # given.x
           /\ \A i \in 1 .. Len(runs) : Len(runs[i]) <= Len(GivenS)

C23_Witness ==
    /\ pc = "loop"
    /\ Len(GivenS) = MaxLen
    /\ ~Occurs(GivenS, given.x)
    /\ it - SourceStart(given.r) = MaxLen
    /\ out = GivenS
    /\ runs # <<>>

\* C24 Independent cursors: two loops, over the same view or over two views
\* of one source with values of their own, stepped in any interleaving,
\* each yield what a loop alone yields: at every step the elements of its
\* source before its cursor, at its end its own truncated sequence; the
\* view is left as it was made.
C24_Independent ==
    other.pc # "none" =>
        LET S2 == Elements(OtherView.base_)
            T2 == Truncated(S2, StoredValue(OtherView))
            T1 == Truncated(GivenS, given.x)
        IN /\ other.it <= Len(T2)
           /\ other.out = SubSeq(T2, 1, other.it)
           /\ other.pc = "done" => other.out = T2
           /\ pc \in {"loop", "done"} =>
                 /\ it <= Len(T1)
                 /\ out = SubSeq(T1, 1, it)
           /\ pc = "done" => out = T1
           /\ \A i \in 1 .. Len(runs) : runs[i] = T1
           /\ view = take_before_view(given.r, given.x, view.T)

C24_Witness ==
    /\ pc = "loop" /\ other.pc = "loop"
    /\ ~other.same
    /\ StoredValue(other.view) # given.x
    /\ it >= 1 /\ other.it >= 1
    /\ it # other.it
    /\ Len(out) + 1 = Len(Truncated(GivenS, given.x))
    /\ runs # <<>>
====
